---- MODULE Spec2Model ----
(***************************************************************************)
(* Model of src/main.py: CsvDataProcessor, the station allocator           *)
(* (_distribute_students, _assign_station_for_student,                     *)
(* find_random_available, check_not_in_list), the codec                    *)
(* (_collect_previous_state, convert_state_to_column) and the driver loop  *)
(* that appends one column per allocation run.                             *)
(*                                                                         *)
(* Items are row indices 0..N-1.  A table cell is a record [t, x]: t is    *)
(* the kind of the cell as pandas hands it over, x its value in tenths     *)
(* (so 25 is the float 2.5 and 30 the integer 3).                          *)
(***************************************************************************)
EXTENDS Integers, Sequences, FiniteSets, TLC

(* ------------------------------------------------------------------ *)
(* Program constants                                                   *)
(* ------------------------------------------------------------------ *)

\* random.randint(1, 8) and range(1, 9): stations are 1..8
NumStations == 8

\* len(lst[station]) < 3 / == 3
Capacity == 3

\* max_attempts of _assign_station_for_student
max_attempts_assign == 15

\* max_attempts of find_random_available
max_attempts_find == 8

\* for i in range(3, 9): first and one-past-last value of the driver loop
FirstLab == 3

StopLab == 9

(* ------------------------------------------------------------------ *)
(* Bounds of the model                                                 *)
(* ------------------------------------------------------------------ *)

\* longest column whose draws are all left free
MaxFreeRows == 2

\* longest column over the whole set of raw cell kinds (draws prescribed)
MaxRawRows == 2

\* rows beyond the 24 places, in the columns that fill every station
MaxExtra == 1

\* driver iterations followed on the columns run more than once
MaxRuns == 2

\* places still empty when the prescribed prefix of draws ends
FreeSlots == 2

Stations == 1..NumStations

Keys == 0..NumStations

TotalPlaces == NumStations * Capacity

(* ------------------------------------------------------------------ *)
(* Table cells and int()                                               *)
(* ------------------------------------------------------------------ *)

Cell(t, x) == [t |-> t, x |-> x]

NullCell == Cell("null", 0)

NumCell(n) == Cell("num", 10 * n)

\* pd.isnull(value)
IsNull(value) == value.t = "null"

\* int() of a float truncates toward zero
Trunc(x) == IF x >= 0 THEN x \div 10 ELSE -((-x) \div 10)

\* int(value): the integer, or the exception it raises
PyInt(value) ==
    CASE value.t = "num" -> [exc |-> "none", n |-> Trunc(value.x)]
      [] value.t = "str" ->
            IF value.x % 10 = 0
            THEN [exc |-> "none", n |-> Trunc(value.x)]
            ELSE [exc |-> "ValueError", n |-> 0]
      [] value.t = "inf" -> [exc |-> "OverflowError", n |-> 0]
      [] OTHER -> [exc |-> "ValueError", n |-> 0]

(* ------------------------------------------------------------------ *)
(* Codec: _collect_previous_state and convert_state_to_column          *)
(* ------------------------------------------------------------------ *)

\* {i: [] for i in range(0, 9)}
EmptyState == [k \in Keys |-> <<>>]

\* mutant: the keys of previous_state stop at 7
CollectRowBelowLast(state, i, value) ==
    IF IsNull(value)
    THEN [state |-> [state EXCEPT ![0] = Append(@, i)], exc |-> "none"]
    ELSE LET r == PyInt(value) IN
         IF r.exc \in {"ValueError", "TypeError"}
         THEN [state |-> state, exc |-> "none"]
         ELSE IF r.exc # "none"
         THEN [state |-> state, exc |-> r.exc]
         ELSE IF r.n \in 0..(NumStations - 1)
         THEN [state |-> [state EXCEPT ![r.n] = Append(@, i)], exc |-> "none"]
         ELSE [state |-> state, exc |-> "none"]

\* mutant: a row whose value is not a label 0..8 is taken as unassigned
CollectRowDefaultsToZero(state, i, value) ==
    IF IsNull(value)
    THEN [state |-> [state EXCEPT ![0] = Append(@, i)], exc |-> "none"]
    ELSE LET r == PyInt(value) IN
         IF r.exc \in {"ValueError", "TypeError"}
         THEN [state |-> [state EXCEPT ![0] = Append(@, i)], exc |-> "none"]
         ELSE IF r.exc # "none"
         THEN [state |-> state, exc |-> r.exc]
         ELSE IF r.n \in Keys
         THEN [state |-> [state EXCEPT ![r.n] = Append(@, i)], exc |-> "none"]
         ELSE [state |-> [state EXCEPT ![0] = Append(@, i)], exc |-> "none"]

\* The body of the loop of _collect_previous_state for row i: the state
\* after it and the exception that leaves the loop, "none" if none does.
\* ValueError and TypeError are caught (the warning is printed) and the row
\* is in no group.
CollectRow(state, i, value) ==
    IF IsNull(value)
    THEN [state |-> [state EXCEPT ![0] = Append(@, i)], exc |-> "none"]
    ELSE LET r == PyInt(value) IN
         IF r.exc \in {"ValueError", "TypeError"}
         THEN [state |-> state, exc |-> "none"]
         ELSE IF r.exc # "none"
         THEN [state |-> state, exc |-> r.exc]
         ELSE IF r.n \in Keys
         THEN [state |-> [state EXCEPT ![r.n] = Append(@, i)], exc |-> "none"]
         ELSE [state |-> state, exc |-> "none"]

\* mutant: only the first index of a group is written
WriteFirstIndexOnly(column_values, key, indices) ==
    IF indices = <<>> THEN column_values
    ELSE [column_values EXCEPT ![Head(indices) + 1] = key]

RECURSIVE WriteIndices(_, _, _)
\* for index in indices: column_values[index] = key
WriteIndices(column_values, key, indices) ==
    IF indices = <<>> THEN column_values
    ELSE WriteIndices([column_values EXCEPT ![Head(indices) + 1] = key],
                      key, Tail(indices))

RECURSIVE WriteKeys(_, _, _)
\* for key, indices in state_dict.items(), from key on (insertion order 0..8)
WriteKeys(column_values, state_dict, key) ==
    IF key > NumStations THEN column_values
    ELSE WriteKeys(WriteIndices(column_values, key, state_dict[key]),
                   state_dict, key + 1)

\* convert_state_to_column with len(self.data) = n; entry i + 1 is row i
convert_state_to_column(state_dict, n) ==
    WriteKeys([j \in 1..n |-> 0], state_dict, 0)

(* ------------------------------------------------------------------ *)
(* Allocator helpers                                                   *)
(* ------------------------------------------------------------------ *)

Elems(lst) == {lst[j] : j \in 1..Len(lst)}

\* mutant: the loop returns after looking at the first value only
check_first_value_only(values, lst) == values[1] \notin Elems(lst)

\* check_not_in_list: TRUE iff no value of values is in lst
check_not_in_list(values, lst) ==
    \A j \in 1..Len(values) : values[j] \notin Elems(lst)

\* mutant: the comparison admits a station that already holds 3
HasRoomLoose(lst, station) == Len(lst[station]) <= Capacity

\* mutant: the comparison refuses a station that holds 2
HasRoomTight(lst, station) == Len(lst[station]) < Capacity - 1

\* len(lst[station]) < 3
HasRoom(lst, station) == Len(lst[station]) < Capacity

\* mutant: a station counts as full only above the capacity
IsFullAbove(lst, station) == Len(lst[station]) > Capacity

\* len(lst[assigned_station]) == 3
IsFull(lst, station) == Len(lst[station]) = Capacity

\* mutant: all_full is set as soon as one station is full
AllFullAny(lst) == \E station \in Stations : Len(lst[station]) >= Capacity

\* all_full after the first loop of find_random_available
AllFull(lst) == \A station \in Stations : ~HasRoom(lst, station)

\* mutant: the scan has no break and keeps the last station with room
FirstAvailableLast(lst, station) ==
    IF \E s \in Stations : Len(lst[s]) < Capacity
    THEN CHOOSE s \in Stations :
            /\ Len(lst[s]) < Capacity
            /\ \A u \in Stations : Len(lst[u]) < Capacity => u <= s
    ELSE station

\* mutant: the ascending scan is left out
FirstAvailableNone(lst, station) == station

\* the last loop of find_random_available: the first station with room,
\* or the station already held when none has
FirstAvailable(lst, station) ==
    IF \E s \in Stations : HasRoom(lst, s)
    THEN CHOOSE s \in Stations :
            HasRoom(lst, s) /\ \A u \in Stations : HasRoom(lst, u) => s <= u
    ELSE station

(* ------------------------------------------------------------------ *)
(* Counting the items of a grouping (station 0 included)               *)
(* ------------------------------------------------------------------ *)

RECURSIVE CountFrom(_, _)
CountFrom(state, k) ==
    IF k > NumStations THEN 0 ELSE Len(state[k]) + CountFrom(state, k + 1)

TotalItems(state) == CountFrom(state, 0)

(* ------------------------------------------------------------------ *)
(* State                                                               *)
(* ------------------------------------------------------------------ *)

VARIABLES
    data,              \* self.data: the table, a sequence of columns
    i,                 \* the driver's loop variable
    horizon,           \* iterations of the driver loop the model follows
    script,            \* the prescribed prefix of random draws: length, stride
    draws,             \* draws taken from the prescribed prefix so far
    previous_state,    \* template_function's previous_state
    new_state,         \* template_function's new_state
    pc,                \* position in the program
    key,               \* _distribute_students: key of the group in hand
    idx,               \* position in the sequence iterated: the rows of the
                       \* column, then the students of the group (1-based)
    ret,               \* which call of find_random_available is running
    assigned_station,  \* assigned_station of the running placement
    attempts,          \* attempts of _assign_station_for_student
    find_attempts,     \* attempts of find_random_available
    scans,             \* ascending scans made by the running search
    failed,            \* students reported by the except branch (line 141)
    exhausted,         \* students whose avoidance loop ran out of attempts
    returned,          \* the new_state template_function returned last
    error              \* the exception that ended the program, or "none"

vars == <<data, i, horizon, script, draws, previous_state, new_state, pc,
          key, idx, ret, assigned_station, attempts, find_attempts, scans,
          failed, exhausted, returned, error>>

\* the group in hand and the student in hand
students == previous_state[key]

student == students[idx]

\* len(self.data)
NumRows == Len(data[1])

(* ------------------------------------------------------------------ *)
(* Inputs: the last column of the CSV file and the random source       *)
(* ------------------------------------------------------------------ *)

\* cells of every kind a CSV column can hold
RawCells ==
    {NullCell, NumCell(0), NumCell(1), NumCell(8), NumCell(9), NumCell(-1),
     Cell("num", 25), Cell("str", 30), Cell("text", 0), Cell("inf", 0)}

\* short columns of labels 0 and 1, and the column of one group of three
\* rows at station 1; every draw free, the columns of at most one row run
\* MaxRuns times
FreeScenarios ==
    {[column |-> c, script |-> [len |-> 0, stride |-> 1],
      horizon |-> IF Len(c) <= 1 THEN MaxRuns ELSE 1] :
        c \in UNION {[1..n -> {NumCell(0), NumCell(1)}] : n \in 0..MaxFreeRows}
              \cup {[r \in 1..Capacity |-> NumCell(1)]}}

\* short columns over every kind of cell, draws prescribed, the one-row
\* columns followed through the whole driver loop
RawScenarios ==
    {[column |-> c, script |-> [len |-> TotalPlaces, stride |-> 1],
      horizon |-> IF Len(c) <= 1 THEN StopLab - FirstLab ELSE 1] :
        c \in UNION {[1..n -> RawCells] : n \in 0..MaxRawRows}}

\* a column of n rows: z rows of label 0, then groups of three rows with
\* labels 1, 2, ..., 8, 1, ...
FullColumn(n, z) ==
    [r \in 1..n |->
        IF r <= z THEN NumCell(0)
        ELSE NumCell(1 + (((r - 1 - z) \div Capacity) % NumStations))]

\* columns of 24 rows and more.  The prescribed draws leave FreeSlots places:
\* 1, 2, ..., 8, 1, ... (stride 1) leaves them in different stations,
\* 1, 1, 1, 2, 2, 2, ... (stride 3) in the last station; the latter is
\* paired with the columns whose prescribed draws all serve label 0.
FullScenarios ==
    {[column |-> FullColumn(n, z),
      script |-> [len |-> TotalPlaces - FreeSlots, stride |-> st],
      horizon |-> 1] :
        n \in TotalPlaces..(TotalPlaces + MaxExtra),
        z \in {0, TotalPlaces \div 2, TotalPlaces - FreeSlots,
               TotalPlaces + MaxExtra + 1},
        st \in {1, Capacity}}
    \ {[column |-> FullColumn(n, z),
        script |-> [len |-> TotalPlaces - FreeSlots, stride |-> Capacity],
        horizon |-> 1] :
        n \in TotalPlaces..(TotalPlaces + MaxExtra),
        z \in {0, TotalPlaces \div 2}}

\* columns of 24 rows and more run MaxRuns times, every draw prescribed
\* (1, 2, ..., 8, 1, ... or 1, 1, 1, 2, 2, 2, ...)
RunScenarios ==
    {[column |-> FullColumn(n, z),
      script |-> [len |-> MaxRuns * (TotalPlaces + MaxExtra)
                              * (max_attempts_assign + 1)
                              * (max_attempts_find + 1),
                  stride |-> stride],
      horizon |-> MaxRuns] :
        n \in TotalPlaces..(TotalPlaces + MaxExtra),
        z \in {0, TotalPlaces \div 2},
        stride \in {1, Capacity}}

Scenarios ==
    FreeScenarios \cup RawScenarios \cup FullScenarios \cup RunScenarios

\* randomize(): random.randint(1, 8).  The first script.len draws of an
\* execution are prescribed, every later draw is any
\* station.
Randomize ==
    IF draws < script.len
    THEN {1 + ((draws \div script.stride) % NumStations)}
    ELSE Stations

DrawsAfter == IF draws < script.len THEN draws + 1 ELSE draws

(* ------------------------------------------------------------------ *)
(* Initial state: load_data() done, the driver loop about to start     *)
(* ------------------------------------------------------------------ *)

Init ==
    \E sc \in Scenarios :
        /\ data = <<sc.column>>
        /\ horizon = sc.horizon
        /\ script = sc.script
        /\ draws = 0
        /\ i = FirstLab
        /\ previous_state = EmptyState
        /\ new_state = EmptyState
        /\ pc = "driver"
        /\ key = 0
        /\ idx = 1
        /\ ret = "none"
        /\ assigned_station = 0
        /\ attempts = 0
        /\ find_attempts = 0
        /\ scans = 0
        /\ failed = {}
        /\ exhausted = {}
        /\ returned = EmptyState
        /\ error = "none"

(* ------------------------------------------------------------------ *)
(* Driver loop and add_template_column                                 *)
(* ------------------------------------------------------------------ *)

\* mutant: new_state is built once and carried from run to run
DriverIterateKeepsNewState ==
    /\ pc = "driver"
    /\ i < StopLab
    /\ i < FirstLab + horizon
    /\ previous_state' = EmptyState
    /\ failed' = {}
    /\ exhausted' = {}
    /\ idx' = 1
    /\ pc' = "collect"
    /\ UNCHANGED <<data, i, horizon, script, draws, new_state, key, ret,
                   assigned_station, attempts, find_attempts, scans, error,
                   returned>>

\* for i in range(3, 9): add_template_column calls template_function, which
\* builds an empty previous_state and an empty new_state
DriverIterate ==
    /\ pc = "driver"
    /\ i < StopLab
    /\ i < FirstLab + horizon
    /\ previous_state' = EmptyState
    /\ new_state' = EmptyState
    /\ failed' = {}
    /\ exhausted' = {}
    /\ idx' = 1
    /\ pc' = "collect"
    /\ UNCHANGED <<data, i, horizon, script, draws, key, ret,
                   assigned_station, attempts, find_attempts, scans, error, returned>>

\* the loop is over: save_data
DriverSave ==
    /\ pc = "driver"
    /\ i = StopLab
    /\ pc' = "saved"
    /\ UNCHANGED <<data, i, horizon, script, draws, previous_state,
                   new_state, key, idx, ret, assigned_station, attempts,
                   find_attempts, scans, failed, exhausted, error, returned>>

\* _collect_previous_state: one iteration of
\* for i, value in enumerate(self.data[last_column_name]); an exception
\* other than ValueError and TypeError leaves the program
CollectNext ==
    /\ pc = "collect"
    /\ idx <= Len(data[Len(data)])
    /\ LET r == CollectRow(previous_state, idx - 1, data[Len(data)][idx]) IN
        /\ previous_state' = r.state
        /\ IF r.exc = "none"
           THEN /\ idx' = idx + 1
                /\ pc' = pc
                /\ error' = error
           ELSE /\ idx' = idx
                /\ pc' = "crashed"
                /\ error' = r.exc
    /\ UNCHANGED <<data, i, horizon, script, draws, new_state, key, ret,
                   assigned_station, attempts, find_attempts, scans, failed,
                   exhausted, returned>>

\* the loop is over: _collect_previous_state returns and
\* _distribute_students starts with the first key
CollectReturn ==
    /\ pc = "collect"
    /\ idx > Len(data[Len(data)])
    /\ key' = 0
    /\ idx' = 1
    /\ pc' = "group"
    /\ UNCHANGED <<data, i, horizon, script, draws, previous_state,
                   new_state, ret, assigned_station, attempts, find_attempts,
                   scans, failed, exhausted, error, returned>>

\* template_function returns new_state; convert_state_to_column and
\* self.data[column_name] = new_column_values
AppendColumn ==
    /\ pc = "encode"
    /\ LET new_column_values == convert_state_to_column(new_state, NumRows) IN
        data' = Append(data, [j \in 1..NumRows |-> NumCell(new_column_values[j])])
    /\ returned' = new_state
    /\ i' = i + 1
    /\ pc' = "driver"
    /\ UNCHANGED <<horizon, script, draws, previous_state, new_state, key,
                   idx, ret, assigned_station, attempts, find_attempts, scans,
                   failed, exhausted, error>>

(* ------------------------------------------------------------------ *)
(* _distribute_students                                                *)
(* ------------------------------------------------------------------ *)

\* for key, students in previous_state.items(): keys in insertion order 0..8
\* the loop is over: _distribute_students returns
DistributeReturn ==
    /\ pc = "group"
    /\ key > NumStations
    /\ pc' = "encode"
    /\ key' = 0
    /\ UNCHANGED <<data, i, horizon, script, draws, previous_state,
                   new_state, idx, ret, assigned_station, attempts,
                   find_attempts, scans, failed, exhausted, error, returned>>

\* if not students: continue
GroupSkip ==
    /\ pc = "group"
    /\ key <= NumStations
    /\ students = <<>>
    /\ key' = key + 1
    /\ UNCHANGED <<data, i, horizon, script, draws, previous_state,
                   new_state, pc, idx, ret, assigned_station, attempts,
                   find_attempts, scans, failed, exhausted, error, returned>>

\* a group with students: enter its for student in students loop
GroupEnter ==
    /\ pc = "group"
    /\ key <= NumStations
    /\ students # <<>>
    /\ idx' = 1
    /\ pc' = "student"
    /\ UNCHANGED <<data, i, horizon, script, draws, previous_state,
                   new_state, key, ret, assigned_station, attempts,
                   find_attempts, scans, failed, exhausted, error, returned>>

\* the students of the group are exhausted: next key
GroupDone ==
    /\ pc = "student"
    /\ idx > Len(students)
    /\ key' = key + 1
    /\ idx' = 1
    /\ pc' = "group"
    /\ UNCHANGED <<data, i, horizon, script, draws, previous_state,
                   new_state, ret, assigned_station, attempts, find_attempts,
                   scans, failed, exhausted, error, returned>>

\* mutant: the students of key 0 go through _assign_station_for_student too
StudentStartAlwaysAvoids ==
    /\ pc = "student"
    /\ idx <= Len(students)
    /\ ret' = "first"
    /\ attempts' = 0
    /\ pc' = "find"
    /\ UNCHANGED <<data, i, horizon, script, draws, previous_state,
                   new_state, key, idx, assigned_station, find_attempts,
                   scans, failed, exhausted, error, returned>>

\* the next student: key != 0 calls _assign_station_for_student, whose first
\* statement calls find_random_available; key 0 calls it directly
StudentStart ==
    /\ pc = "student"
    /\ idx <= Len(students)
    /\ ret' = IF key # 0 THEN "first" ELSE "zero"
    /\ attempts' = 0
    /\ pc' = "find"
    /\ UNCHANGED <<data, i, horizon, script, draws, previous_state,
                   new_state, key, idx, assigned_station, find_attempts,
                   scans, failed, exhausted, error, returned>>

\* new_state[assigned_station].append(student)
Place ==
    /\ pc = "place"
    /\ new_state' = [new_state EXCEPT ![assigned_station] = Append(@, student)]
    /\ idx' = idx + 1
    /\ pc' = "student"
    /\ ret' = "none"
    /\ assigned_station' = 0
    /\ attempts' = 0
    /\ find_attempts' = 0
    /\ scans' = 0
    /\ UNCHANGED <<data, i, horizon, script, draws, previous_state, key,
                   failed, exhausted, error, returned>>

(* ------------------------------------------------------------------ *)
(* find_random_available                                               *)
(* ------------------------------------------------------------------ *)

\* mutant: the student is appended to the last station before the error is
\* reported
FindRaiseCaughtAppends ==
    /\ pc = "find"
    /\ AllFull(new_state)
    /\ key # 0
    /\ new_state' = [new_state EXCEPT ![NumStations] = Append(@, student)]
    /\ failed' = failed \cup {student}
    /\ idx' = idx + 1
    /\ pc' = "student"
    /\ ret' = "none"
    /\ assigned_station' = 0
    /\ attempts' = 0
    /\ find_attempts' = 0
    /\ scans' = 0
    /\ UNCHANGED <<data, i, horizon, script, draws, previous_state,
                   key, exhausted, error, returned>>

\* all_full: raise ValueError.  Under key != 0 the call stands in the try of
\* _distribute_students: the except branch reports the student and the loop
\* goes on with the next one.
FindRaiseCaught ==
    /\ pc = "find"
    /\ AllFull(new_state)
    /\ key # 0
    /\ failed' = failed \cup {student}
    /\ idx' = idx + 1
    /\ pc' = "student"
    /\ ret' = "none"
    /\ assigned_station' = 0
    /\ attempts' = 0
    /\ find_attempts' = 0
    /\ scans' = 0
    /\ UNCHANGED <<data, i, horizon, script, draws, previous_state,
                   new_state, key, exhausted, error, returned>>

\* mutant: the error is reported and the run goes on to encode what it has
FindRaiseUncaughtContinues ==
    /\ pc = "find"
    /\ AllFull(new_state)
    /\ key = 0
    /\ error' = "ValueError"
    /\ pc' = "encode"
    /\ UNCHANGED <<data, i, horizon, script, draws, previous_state,
                   new_state, key, idx, ret, assigned_station, attempts,
                   find_attempts, scans, failed, exhausted, returned>>

\* all_full: raise ValueError.  Under key 0 no try encloses the call: the
\* exception leaves _distribute_students, template_function,
\* add_template_column and the driver.
FindRaiseUncaught ==
    /\ pc = "find"
    /\ AllFull(new_state)
    /\ key = 0
    /\ error' = "ValueError"
    /\ pc' = "crashed"
    /\ UNCHANGED <<data, i, horizon, script, draws, previous_state,
                   new_state, key, idx, ret, assigned_station, attempts,
                   find_attempts, scans, failed, exhausted, returned>>

\* not all_full: attempts = 0; assigned_station = self.randomize()
FindDraw ==
    /\ pc = "find"
    /\ ~AllFull(new_state)
    /\ \E r \in Randomize : assigned_station' = r
    /\ draws' = DrawsAfter
    /\ find_attempts' = 0
    /\ scans' = 0
    /\ pc' = "find_loop"
    /\ UNCHANGED <<data, i, horizon, script, previous_state, new_state,
                   key, idx, ret, attempts, failed, exhausted, error, returned>>

\* while len(lst[assigned_station]) == 3 and attempts < max_attempts
FindLoopCond ==
    IsFull(new_state, assigned_station) /\ find_attempts < max_attempts_find

\* the body of the while: draw again
FindResample ==
    /\ pc = "find_loop"
    /\ FindLoopCond
    /\ \E r \in Randomize : assigned_station' = r
    /\ draws' = DrawsAfter
    /\ find_attempts' = find_attempts + 1
    /\ UNCHANGED <<data, i, horizon, script, previous_state, new_state,
                   pc, key, idx, ret, attempts, scans, failed, exhausted, error, returned>>

\* the while is left: if the station held is full, take the first station
\* with room; return assigned_station to the caller
FindReturn ==
    /\ pc = "find_loop"
    /\ ~FindLoopCond
    /\ IF IsFull(new_state, assigned_station)
       THEN /\ assigned_station' = FirstAvailable(new_state, assigned_station)
            /\ scans' = scans + 1
       ELSE /\ assigned_station' = assigned_station
            /\ scans' = scans
    /\ attempts' = IF ret = "resample" THEN attempts + 1 ELSE attempts
    /\ pc' = IF ret = "zero" THEN "place" ELSE "assign_loop"
    /\ UNCHANGED <<data, i, horizon, script, draws, previous_state,
                   new_state, key, idx, ret, find_attempts, failed, exhausted, error, returned>>

(* ------------------------------------------------------------------ *)
(* _assign_station_for_student                                         *)
(* ------------------------------------------------------------------ *)

\* mutant: the loop gives up one attempt early
AssignLoopCondShort ==
    /\ ~check_not_in_list(students, new_state[assigned_station])
    /\ attempts < max_attempts_assign - 1

\* mutant: the bound is compared with <=
AssignLoopCondLoose ==
    /\ ~check_not_in_list(students, new_state[assigned_station])
    /\ attempts <= max_attempts_assign

\* while not check_not_in_list(students_group, new_state[assigned_station])
\*       and attempts < max_attempts
AssignLoopCond ==
    /\ ~check_not_in_list(students, new_state[assigned_station])
    /\ attempts < max_attempts_assign

\* the body of the while: assigned_station = find_random_available(new_state)
\* (attempts += 1 follows the call's return)
AssignResample ==
    /\ pc = "assign_loop"
    /\ AssignLoopCond
    /\ ret' = "resample"
    /\ pc' = "find"
    /\ UNCHANGED <<data, i, horizon, script, draws, previous_state,
                   new_state, key, idx, assigned_station, attempts,
                   find_attempts, scans, failed, exhausted, error, returned>>

\* the while is left: return assigned_station (exhausted records that the
\* bound on attempts, not the check, ended the loop)
AssignReturn ==
    /\ pc = "assign_loop"
    /\ ~AssignLoopCond
    /\ exhausted' = IF attempts < max_attempts_assign
                    THEN exhausted
                    ELSE exhausted \cup {student}
    /\ pc' = "place"
    /\ UNCHANGED <<data, i, horizon, script, draws, previous_state,
                   new_state, key, idx, ret, assigned_station, attempts,
                   find_attempts, scans, failed, error, returned>>

(* ------------------------------------------------------------------ *)
(* Specification                                                       *)
(* ------------------------------------------------------------------ *)

Next ==
    \/ DriverIterate
    \/ DriverSave
    \/ CollectNext
    \/ CollectReturn
    \/ AppendColumn
    \/ DistributeReturn
    \/ GroupSkip
    \/ GroupEnter
    \/ GroupDone
    \/ StudentStart
    \/ Place
    \/ FindRaiseCaught
    \/ FindRaiseUncaught
    \/ FindDraw
    \/ FindResample
    \/ FindReturn
    \/ AssignResample
    \/ AssignReturn

Spec == Init /\ [][Next]_vars

\* the program is one thread that runs every statement it reaches
FairSpec == Spec /\ WF_vars(Next)

(* ------------------------------------------------------------------ *)
(* Vocabulary of the properties                                        *)
(* ------------------------------------------------------------------ *)

\* the items of a grouping
Items(state) == UNION {Elems(state[k]) : k \in Keys}

\* the places (station, position) at which a grouping holds an item
Places(state, item) ==
    {<<k, j>> \in Keys \X (1..TotalPlaces + MaxExtra + 1) :
        j <= Len(state[k]) /\ state[k][j] = item}

\* station s of NewState holds 3 items or more
AtCapacity(s) == Len(new_state[s]) >= 3

EveryStationAtCapacity == \A s \in 1..8 : AtCapacity(s)

\* _distribute_students has returned
AllocateReturned == pc = "encode"

\* a capacity error (ValueError) ended the program
AllocateAborted == pc = "crashed" /\ error = "ValueError"

\* C1: at every point of an allocation run, each station 1..8 of NewState
\* holds at most 3 items, whatever the number of items of PreviousState.
C1_CapacityInvariant == \A s \in 1..8 : Len(new_state[s]) <= 3

\* C1 witness: more items than places, every station holds exactly 3
C1_Witness ==
    /\ TotalItems(previous_state) > 24
    /\ \A s \in 1..8 : Len(new_state[s]) = 3

\* C2: when Allocate finishes on a PreviousState of at most 24 items, every
\* item of PreviousState is at exactly one place of NewState, NewState holds
\* no other item, and the two item counts are equal.
C2_Conservation ==
    (AllocateReturned /\ TotalItems(previous_state) <= 24) =>
        /\ \A item \in Items(previous_state) :
                Cardinality(Places(new_state, item)) = 1
        /\ new_state[0] = <<>>
        /\ Items(new_state) \subseteq Items(previous_state)
        /\ TotalItems(new_state) = TotalItems(previous_state)

\* C2 witness: Allocate has finished on 24 items, groups 0 and 1..8 both
\* present
C2_Witness ==
    /\ AllocateReturned
    /\ TotalItems(previous_state) = 24
    /\ previous_state[0] # <<>>
    /\ \E k \in 1..8 : previous_state[k] # <<>>

\* a step in which the placement of the student in hand raises the capacity
\* error
CapacityErrorStep ==
    \/ ~(failed' \subseteq failed)
    \/ (error' = "ValueError" /\ error # "ValueError")

\* a step that leaves the student in hand without having placed it
LeavesUnplacedStep ==
    /\ pc \in {"find", "find_loop", "assign_loop", "place"}
    /\ pc' \notin {"find", "find_loop", "assign_loop", "place"}
    /\ new_state' = new_state

\* C3: a placement fails with the capacity error only when all 8 stations
\* hold 3 items at that moment; with a station under capacity the student is
\* placed; no run on at most 24 items raises the capacity error.
C3_ErrorOnlyWhenFull ==
    [][/\ CapacityErrorStep => EveryStationAtCapacity
       /\ LeavesUnplacedStep => (EveryStationAtCapacity /\ CapacityErrorStep)
       /\ TotalItems(previous_state') <= 24 =>
                (failed' = {} /\ error' # "ValueError")]_vars

\* C3 witness: a student is about to be placed although every station under
\* capacity already holds a member of its previous group
C3_Witness ==
    /\ pc = "place"
    /\ key # 0
    /\ ~EveryStationAtCapacity
    /\ \A s \in 1..8 :
            ~AtCapacity(s) => Elems(new_state[s]) \cap Elems(students) # {}

\* C4: on a PreviousState of more than 24 items every execution of Allocate
\* raises the capacity error for at least one placement.
C4_Overflow ==
    ((AllocateReturned \/ AllocateAborted) /\ TotalItems(previous_state) > 24)
        => (failed # {} \/ error = "ValueError")

\* C4 witness: Allocate has returned on more than 24 items, the error having
\* been raised and caught
C4_Witness ==
    /\ AllocateReturned
    /\ TotalItems(previous_state) > 24
    /\ failed # {}

\* C5: within a run no item of previous group 0 is placed before every item
\* of the groups 1..8 has been placed or has failed placement.
C5_GroupZeroLast ==
    [][(pc = "place" /\ key = 0 /\ new_state' # new_state) =>
          \A k \in 1..8 :
              Elems(previous_state[k]) \subseteq (Items(new_state) \cup failed)]_vars

\* PreviousState of the end-to-end scenario: group 1 holds 0, 1, 2
OneGroupOfThree ==
    previous_state = [k \in 0..8 |-> IF k = 1 THEN <<0, 1, 2>> ELSE <<>>]

\* items a and b are in the same station of NewState
SameStation(a, b) ==
    \E s \in 0..8 : a \in Elems(new_state[s]) /\ b \in Elems(new_state[s])

\* C6 as claimed: in the end-to-end scenario every execution places items 0,
\* 1 and 2 in three pairwise different stations.
C6_AlwaysDifferent ==
    (OneGroupOfThree /\ AllocateReturned) =>
        \E a, b, c \in 1..8 :
            /\ a # b /\ a # c /\ b # c
            /\ 0 \in Elems(new_state[a])
            /\ 1 \in Elems(new_state[b])
            /\ 2 \in Elems(new_state[c])

\* C6 amended: in the end-to-end scenario every execution places items 0, 1
\* and 2, each at one place of a station 1..8, with no capacity error, and
\* two of them share a station only when the avoidance loop of the later one
\* ran out of its 15 attempts.
C6_DifferentUnlessExhausted ==
    (OneGroupOfThree /\ AllocateReturned) =>
        /\ failed = {}
        /\ \A item \in {0, 1, 2} :
              /\ Cardinality(Places(new_state, item)) = 1
              /\ item \notin Elems(new_state[0])
        /\ \A a, b \in {0, 1, 2} :
              (a < b /\ SameStation(a, b)) => b \in exhausted

\* C6 witness: the scenario has ended with two of the items in one station
C6_Witness ==
    /\ OneGroupOfThree
    /\ AllocateReturned
    /\ \E a, b \in {0, 1, 2} : a < b /\ SameStation(a, b)

\* C7: a capacity error raised while placing an item of any group, 0
\* included, does not abort the run.
C7_ErrorNeverAborts == ~AllocateAborted

\* the column _collect_previous_state reads
LastColumn == data[Len(data)]

\* the cell is null/missing, or the integer 0
CellNullOrZero(c) == c.t = "null" \/ (c.t \in {"num", "str"} /\ c.x = 0)

\* the cell is the integer v
CellInteger(c, v) == c.t \in {"num", "str"} /\ c.x = 10 * v

\* the cell is non-numeric, or an integer outside 0..8
CellInvalid(c) ==
    \/ c.t = "text"
    \/ (c.t \in {"num", "str"} /\ c.x % 10 = 0 /\ (c.x \div 10) \notin 0..8)

\* an exception has left _collect_previous_state
DecodeRaised == pc = "crashed" /\ error # "ValueError"

\* previous_state is the decoding of the last column
Decoded == pc \in {"group", "student", "find", "find_loop", "assign_loop",
                   "place", "encode"}

\* the groups of previous_state follow the rule of the claim
DecodeRule ==
    /\ \A r \in 1..Len(LastColumn) :
          /\ CellNullOrZero(LastColumn[r]) => (r - 1) \in Elems(previous_state[0])
          /\ \A v \in 1..8 :
                CellInteger(LastColumn[r], v) => (r - 1) \in Elems(previous_state[v])
          /\ CellInvalid(LastColumn[r]) => (r - 1) \notin Items(previous_state)
          /\ Cardinality(Places(previous_state, r - 1)) <= 1
    /\ \A k \in 0..8 : \A a, b \in 1..Len(previous_state[k]) :
          a < b => previous_state[k][a] < previous_state[k][b]

\* C8: Decode never raises, and puts row i in group 0 if its value is null
\* or the integer 0, in group v if it is an integer v of 1..8, in no group if
\* it is non-numeric or an integer outside 0..8; a row is in at most one
\* group and the rows of a group ascend.
C8_Decode == ~DecodeRaised /\ (Decoded => DecodeRule)

\* C9: the column Encode returns has N values; index i holds the label s of
\* the station that holds item i, and 0 if no station holds it.
C9_Encode ==
    (pc \in {"driver", "saved"} /\ Len(data) > 1) =>
        /\ Len(LastColumn) = NumRows
        /\ \A item \in 0..(NumRows - 1) :
              /\ \A s \in 0..8 :
                    item \in Elems(new_state[s]) =>
                        LastColumn[item + 1] = [t |-> "num", x |-> 10 * s]
              /\ item \notin Items(new_state) =>
                        LastColumn[item + 1] = [t |-> "num", x |-> 0]

\* C9 witness: a column has been appended for a NewState in which a station
\* holds two items and another row is in no station
C9_Witness ==
    /\ pc = "driver"
    /\ Len(data) > 1
    /\ \E s \in 1..8 : Len(new_state[s]) >= 2
    /\ \E item \in 0..(NumRows - 1) : item \notin Items(new_state)

\* avoidance resamples started for the student in hand
AvoidanceResamples ==
    attempts + (IF ret = "resample" /\ pc \in {"find", "find_loop"} THEN 1 ELSE 0)

\* C10: every allocation run ends (returns, or stops with the capacity
\* error); a placement makes at most 15 avoidance resamples, a candidate
\* search at most 8 random resamples and at most one ascending scan.
C10_Termination ==
    /\ (pc = "group") ~> (AllocateReturned \/ AllocateAborted)
    /\ [](AvoidanceResamples <= 15 /\ find_attempts <= 8 /\ scans <= 1)

\* C10 witness: a placement that used all 15 avoidance resamples, its last
\* search all 8 random resamples and the scan
C10_Witness ==
    /\ pc = "place"
    /\ attempts = 15
    /\ find_attempts = 8
    /\ scans = 1

\* the grouping that is empty in every station
NoItems == [k \in 0..8 |-> <<>>]

\* a run has built its two groupings and is about to read the table
RunStarts == pc = "collect" /\ idx = 1

\* a run has decoded its PreviousState and is about to allocate
AllocationStarts == pc = "group" /\ key = 0

\* C11: every run of the driver starts with a NewState empty in every station
\* and a PreviousState decoded afresh from the current last column of the
\* table: nothing but the column a run appended reaches the next run.
C11_RunIsolation ==
    /\ RunStarts => (new_state = NoItems /\ previous_state = NoItems)
    /\ AllocationStarts =>
          /\ new_state = NoItems
          /\ DecodeRule
          /\ Items(previous_state) \subseteq 0..(Len(LastColumn) - 1)

\* C11 witness: a later run is about to allocate, the run before it having
\* placed an item
C11_Witness ==
    /\ AllocationStarts
    /\ Len(data) >= 2
    /\ returned # NoItems
    /\ previous_state # NoItems

\* the candidate station in hand holds a member of the student's previous
\* group
CandidateHoldsMate ==
    Elems(new_state[assigned_station]) \cap Elems(students) # {}

\* C12: the avoidance loop resamples only after a candidate that holds a
\* group-mate; a candidate under capacity that holds none is accepted at once,
\* with no further draw; an item of a group 1..8 is placed in a station that
\* holds a group-mate only after all 15 resamples.
C12_AvoidanceForcedOnly ==
    [][/\ (pc = "assign_loop" /\ pc' = "find") => CandidateHoldsMate
       /\ (/\ pc = "assign_loop"
           /\ ~CandidateHoldsMate
           /\ Len(new_state[assigned_station]) < 3) =>
                /\ pc' = "place"
                /\ assigned_station' = assigned_station
                /\ draws' = draws
       /\ (/\ pc = "place"
           /\ key # 0
           /\ CandidateHoldsMate
           /\ new_state' # new_state) => attempts = 15]_vars

\* C12 witness: an item of a group 1..8 is about to join a group-mate, all 15
\* resamples used, while another station under capacity holds no group-mate
C12_Witness ==
    /\ pc = "place"
    /\ key # 0
    /\ CandidateHoldsMate
    /\ attempts = 15
    /\ \E s \in 1..8 :
          /\ Len(new_state[s]) < 3
          /\ Elems(new_state[s]) \cap Elems(students) = {}

\* a step in which find_random_available returns its station
SearchReturns == pc = "find_loop" /\ pc' # "find_loop"

\* C13: with a station of 1..8 under 3 items, find_random_available does not
\* raise and returns a station of 1..8 that holds fewer than 3 items; station
\* 0 of NewState stays empty; when the initial draw and all 8 resamples hit
\* stations holding 3, the station returned is the lowest-numbered one with
\* fewer than 3.
C13_CandidateSearch ==
    /\ [](new_state[0] = <<>>)
    /\ [][/\ (pc = "find" /\ \E s \in 1..8 : Len(new_state[s]) < 3) =>
                pc' = "find_loop"
          /\ SearchReturns =>
                /\ assigned_station' \in 1..8
                /\ Len(new_state[assigned_station']) < 3
                /\ (find_attempts = 8 /\ Len(new_state[assigned_station]) >= 3)
                      => \A s \in 1..8 :
                            Len(new_state[s]) < 3 => assigned_station' <= s]_vars

\* C13 witness: a search has returned after 8 resamples and the scan, two
\* stations or more being under capacity
C13_Witness ==
    /\ pc \in {"assign_loop", "place"}
    /\ find_attempts = 8
    /\ scans = 1
    /\ \E s, u \in 1..8 :
          s < u /\ Len(new_state[s]) < 3 /\ Len(new_state[u]) < 3

\* a run has appended its column and the next run has not started
ColumnAppended == pc \in {"driver", "saved"} /\ Len(data) > 1

\* the column decoded by the run in hand, or by the run that has just ended
RunColumn == IF ColumnAppended THEN data[Len(data) - 1] ELSE LastColumn

\* C14: an item Decode skips (value non-numeric, or an integer outside 0..8)
\* is in no station of the run's NewState at any point of the run, and the
\* column the run appends holds 0 at its row.
C14_SkippedNotReassigned ==
    \A r \in 1..Len(RunColumn) :
        CellInvalid(RunColumn[r]) =>
            /\ (r - 1) \notin Items(new_state)
            /\ ColumnAppended => LastColumn[r] = [t |-> "num", x |-> 0]

\* C14 witness: a run has appended its column, having skipped one row and
\* placed another
C14_Witness ==
    /\ ColumnAppended
    /\ \E r \in 1..Len(RunColumn) : CellInvalid(RunColumn[r])
    /\ Items(new_state) # {}

\* C15: every column a run has produced holds only integers of 0..8, and every
\* PreviousState decoded from such a column has at most 3 items in each
\* station 1..8 and holds every row, whatever the initial column and the
\* number of runs.
C15_OldStatesBounded ==
    /\ \A c \in 2..Len(data) : \A r \in 1..Len(data[c]) :
          /\ data[c][r].t = "num"
          /\ \E v \in 0..8 : data[c][r].x = 10 * v
    /\ (Decoded /\ Len(data) >= 2) =>
          /\ \A s \in 1..8 : Len(previous_state[s]) <= 3
          /\ Items(previous_state) = 0..(Len(LastColumn) - 1)

\* C15 witness: a PreviousState decoded from a produced column, a station
\* with 3 items and an unassigned row in it, the initial column having had
\* more rows than places
C15_Witness ==
    /\ Decoded
    /\ Len(data) >= 2
    /\ Len(data[1]) > 24
    /\ \E s \in 1..8 : Len(previous_state[s]) = 3
    /\ previous_state[0] # <<>>

\* C16: the step in which the placement of an item of a group 1..8 raises the
\* capacity error leaves NewState as it was; the item is in no station for
\* the rest of the run, and the column the run appends holds 0 at its row.
C16_FailedPlacementNoEffect ==
    /\ [][~(failed' \subseteq failed) => new_state' = new_state]_vars
    /\ [](\A item \in failed :
            /\ item \notin Items(new_state)
            /\ ColumnAppended =>
                  LastColumn[item + 1] = [t |-> "num", x |-> 0])

\* C16 witness: a run in which a placement failed has appended its column
C16_Witness ==
    /\ ColumnAppended
    /\ failed # {}
    /\ \A s \in 1..8 : Len(new_state[s]) = 3

\* C17: the PreviousState decoded from the column a run appended has in each
\* group 1..8 exactly the items of that station of the run's NewState, and in
\* group 0 exactly the rows the run placed in no station, each item once.
C17_RoundTrip ==
    (Decoded /\ Len(data) >= 2) =>
        /\ \A s \in 1..8 : Elems(previous_state[s]) = Elems(returned[s])
        /\ Elems(previous_state[0]) =
                (0..(Len(LastColumn) - 1)) \ Items(returned)
        /\ \A k \in 0..8 :
                Len(previous_state[k]) = Cardinality(Elems(previous_state[k]))

\* C17 witness: the column of a NewState with a station of two items or more
\* and an unplaced row has been decoded
C17_Witness ==
    /\ Decoded
    /\ Len(data) >= 2
    /\ \E s \in 1..8 : Len(returned[s]) >= 2
    /\ (0..(Len(LastColumn) - 1)) \ Items(returned) # {}

\* a run after the first has decoded the column of the run before it
LaterRun == Decoded /\ Len(data) >= 2

\* C18: in the run after the one that gave it 0 (skipped or failed), an item
\* is in group 0; with a station under capacity its placement does not raise,
\* takes the station the search returns, a station of 1..8, without the
\* avoidance loop; a row skipped by a run is in a station of 1..8 when the
\* next run's allocation returns.
C18_ZeroReassigned ==
    /\ [](LaterRun =>
            \A r \in 1..Len(LastColumn) :
                LastColumn[r] = [t |-> "num", x |-> 0] =>
                    (r - 1) \in Elems(previous_state[0]))
    /\ [][(LaterRun /\ key = 0) =>
            /\ pc' # "assign_loop"
            /\ (pc = "find" /\ \E s \in 1..8 : Len(new_state[s]) < 3) =>
                    pc' = "find_loop"
            /\ SearchReturns => pc' = "place"
            /\ pc = "place" =>
                    /\ assigned_station \in 1..8
                    /\ new_state' = [new_state EXCEPT
                            ![assigned_station] = Append(@, student)]]_vars
    /\ []((LaterRun /\ AllocateReturned) =>
            \A r \in 1..Len(LastColumn) :
                CellInvalid(data[Len(data) - 1][r]) =>
                    \E s \in 1..8 : (r - 1) \in Elems(new_state[s]))

\* C18 witness: the allocation of a later run has returned with a row the
\* run before it skipped now in a station
C18_Witness ==
    /\ LaterRun
    /\ AllocateReturned
    /\ \E r \in 1..Len(LastColumn) :
          /\ CellInvalid(data[Len(data) - 1][r])
          /\ \E s \in 1..8 : (r - 1) \in Elems(new_state[s])

\* C19: the step in which a capacity error leaves a run uncaught, and every
\* step after it, leaves the table as it was: the table of an aborted run has
\* the initial column and one column per run completed before, none for the
\* aborted run.
C19_AbortLeavesTable ==
    /\ [][error' = "ValueError" => data' = data]_vars
    /\ [](AllocateAborted => Len(data) = 1 + (i - 3))

\* C19 witness: a run on more than 24 unassigned rows has stopped with the
\* capacity error, 24 items placed, the table still its initial column
C19_Witness ==
    /\ AllocateAborted
    /\ key = 0
    /\ \A s \in 1..8 : Len(new_state[s]) = 3
    /\ Len(data) = 1

====
